---- MODULE Spec2Model ----
(***************************************************************************)
(* A model of chess-rs: the Position geometry (src/src/position.rs), the   *)
(* Board and its move generator (src/src/lib.rs) and the click handler of  *)
(* the GUI (src/src/main.rs).                                              *)
(*                                                                         *)
(* A Position is the tuple <<row, column>>.  Option<T> and Result<T> are   *)
(* sequences: <<>> is None / Err(MoveError), <<v>> is Some(v) / Ok(v).     *)
(* An empty square (Option<ChessPiece>::None) is the record None.          *)
(* A call that can panic returns [panicked, val].                          *)
(***************************************************************************)
EXTENDS Integers, Sequences, FiniteSets, TLC

\* ------------------------------------------------------------ bounds
\* Raw row / column arguments handed to try_new range over 0..MaxCoord.
MaxCoord == 9
\* Signed offsets handed to try_add range over -MaxOffset..MaxOffset
\* (and the two extreme isize values).
MaxOffset == 9
\* Pieces placed by add_piece on an otherwise empty board.
MaxPieces == 2
\* Pieces placed on the squares of the check-detection scenarios.
MaxCheckPieces == 3
\* move_piece calls made on the new_game board.
MaxMoveCalls == 1
\* Successive move_piece calls made among the squares of the a-file.
MaxSeqCalls == 3
\* Moves executed through the click handler.
MaxMoves == 2
\* Width in bits of usize / isize in the model (TLC's integers are 32 bits
\* wide; only "wrapped values are large" matters to the code modelled).
PtrBits == 16

\* --------------------------------------------------------- constants
\* The literal 8 of try_new and of the ray loops.
BoardSize == 8
\* The literal 7 of the diagonal loops (and LAST_ROW).
LastIndex == 7
WHITE_PAWN_ROW == 1
BLACK_PAWN_ROW == 6
LAST_ROW == 7

UsizeModulus == 2 ^ PtrBits
IsizeMax == 2 ^ (PtrBits - 1) - 1
IsizeMin == -(2 ^ (PtrBits - 1))

Colors == {"White", "Black"}
Kinds == {"Pawn", "Knight", "Bishop", "Rook", "Queen", "King"}
None == [color |-> "None", kind |-> "None"]
\* ChessPiece::new
NewPiece(kind, color) == [color |-> color, kind |-> kind]
Pieces == {NewPiece(k, c) : k \in Kinds, c \in Colors}
Positions == (0 .. BoardSize - 1) \X (0 .. BoardSize - 1)

Range(s) == {s[i] : i \in 1 .. Len(s)}
Ok(v) == <<v>>
Err == <<>>
IsOk(r) == r # <<>>
\* Result::unwrap / the value inside Some
Unwrap(r) == r[1]
Returned(v) == [panicked |-> FALSE, val |-> v]
Panic == [panicked |-> TRUE, val |-> <<>>]

\* -------------------------------------------------- machine arithmetic
\* usize a - b: panics with overflow checks on (debug), wraps otherwise.
UsizeSub(a, b, checks) ==
  IF a - b >= 0 THEN Returned(a - b)
  ELSE IF checks THEN Panic
  ELSE Returned(a - b + UsizeModulus)

\* usize a + b
UsizeAdd(a, b, checks) ==
  IF a + b < UsizeModulus THEN Returned(a + b)
  ELSE IF checks THEN Panic
  ELSE Returned(a + b - UsizeModulus)

\* isize a + b
IsizeAdd(a, b, checks) ==
  IF a + b > IsizeMax
  THEN (IF checks THEN Panic ELSE Returned(a + b - UsizeModulus))
  ELSE IF a + b < IsizeMin
  THEN (IF checks THEN Panic ELSE Returned(a + b + UsizeModulus))
  ELSE Returned(a + b)

\* ------------------------------------------------------------ Position
try_new(row, column) ==
  IF row < BoardSize /\ column < BoardSize THEN Ok(<<row, column>>) ELSE Err

get_row(pos) == pos[1]
get_column(pos) == pos[2]

\* Returns [panicked, val]: val is the Result<Position>.
try_add(self, d, checks) ==
  LET new_row == IsizeAdd(get_row(self), d[1], checks)
      new_col == IsizeAdd(get_column(self), d[2], checks)
  IN IF new_row.panicked \/ new_col.panicked THEN Panic
     ELSE IF new_row.val >= 0 /\ new_col.val >= 0
          THEN Returned(try_new(new_row.val, new_col.val))
          ELSE Returned(Err)

get_left_squares(self) ==
  [k \in 1 .. get_column(self) |->
     Unwrap(try_new(get_row(self), get_column(self) - k))]

get_right_squares(self) ==
  [k \in 1 .. (BoardSize - 1 - get_column(self)) |->
     Unwrap(try_new(get_row(self), get_column(self) + k))]

get_down_squares(self) ==
  [k \in 1 .. get_row(self) |->
     Unwrap(try_new(get_row(self) - k, get_column(self)))]

get_up_squares(self) ==
  [k \in 1 .. (BoardSize - 1 - get_row(self)) |->
     Unwrap(try_new(get_row(self) + k, get_column(self)))]

RECURSIVE PrincipalUpLoop(_, _)
PrincipalUpLoop(row, column) ==
  IF row = LastIndex \/ column = LastIndex THEN <<>>
  ELSE <<Unwrap(try_new(row + 1, column + 1))>>
         \o PrincipalUpLoop(row + 1, column + 1)

get_principal_diagonal_up_squares(self) ==
  PrincipalUpLoop(get_row(self), get_column(self))

RECURSIVE SecondaryUpLoop(_, _)
SecondaryUpLoop(row, column) ==
  IF row = 0 \/ column = LastIndex THEN <<>>
  ELSE <<Unwrap(try_new(row - 1, column + 1))>>
         \o SecondaryUpLoop(row - 1, column + 1)

get_secondary_diagonal_up_squares(self) ==
  SecondaryUpLoop(get_row(self), get_column(self))

RECURSIVE PrincipalDownLoop(_, _)
PrincipalDownLoop(row, column) ==
  IF row = 0 \/ column = 0 THEN <<>>
  ELSE <<Unwrap(try_new(row - 1, column - 1))>>
         \o PrincipalDownLoop(row - 1, column - 1)

get_principal_diagonal_down_squares(self) ==
  PrincipalDownLoop(get_row(self), get_column(self))

RECURSIVE SecondaryDownLoop(_, _)
SecondaryDownLoop(row, column) ==
  IF row = LastIndex \/ column = 0 THEN <<>>
  ELSE <<Unwrap(try_new(row + 1, column - 1))>>
         \o SecondaryDownLoop(row + 1, column - 1)

get_secondary_diagonal_down_squares(self) ==
  SecondaryDownLoop(get_row(self), get_column(self))

SurroundingOffsets ==
  << <<-1, -1>>, <<-1, 0>>, <<-1, 1>>,
     <<0, -1>>,  <<0, 0>>,  <<0, 1>>,
     <<1, -1>>,  <<1, 0>>,  <<1, 1>> >>

\* filter_map(|pos| self.try_add(pos).ok()) over a list of offsets, in order.
\* Returns [panicked, val]: val is the sequence of positions kept.
RECURSIVE FilterMapTryAdd(_, _, _, _)
FilterMapTryAdd(self, offsets, i, checks) ==
  IF i > Len(offsets) THEN Returned(<<>>)
  ELSE LET r == try_add(self, offsets[i], checks)
           rest == FilterMapTryAdd(self, offsets, i + 1, checks)
       IN IF r.panicked \/ rest.panicked THEN Panic
          ELSE Returned(r.val \o rest.val)

get_surrounding_squares(self, checks) ==
  FilterMapTryAdd(self, SurroundingOffsets, 1, checks)

\* --------------------------------------------------------------- Board
\* Board::new
NewBoard == [p \in Positions |-> None]

\* The back rank with knights and bishops exchanged.
BackRankSwapped == <<"Rook", "Bishop", "Knight", "Queen", "King", "Knight", "Bishop", "Rook">>

BackRank == <<"Rook", "Knight", "Bishop", "Queen", "King", "Bishop", "Knight", "Rook">>

init_board(sq) ==
  [p \in Positions |->
     IF get_row(p) = 0 THEN NewPiece(BackRank[get_column(p) + 1], "White")
     ELSE IF get_row(p) = 1 THEN NewPiece("Pawn", "White")
     ELSE IF get_row(p) = 6 THEN NewPiece("Pawn", "Black")
     ELSE IF get_row(p) = LAST_ROW THEN NewPiece(BackRank[get_column(p) + 1], "Black")
     ELSE sq[p]]

new_game == init_board(NewBoard)

get_piece(sq, pos) == sq[pos]

add_piece(sq, piece, pos) == [sq EXCEPT ![pos] = piece]

\* move_piece copying the source square instead of taking from it.
move_piece_copying(sq, initial_position, final_position) ==
  [sq EXCEPT ![final_position] = sq[initial_position]]

\* Option::take on the source square, then the assignment to the destination.
move_piece(sq, initial_position, final_position) ==
  LET taken == sq[initial_position]
      emptied == [sq EXCEPT ![initial_position] = None]
  IN [emptied EXCEPT ![final_position] = taken]

\* ------------------------------------------------------ move generator
\* The collision filter comparing for equality: it keeps own pieces and drops opponents.
filter_same_color_collision_inverted(chess_piece, col) ==
  IF chess_piece # None THEN chess_piece.color = col ELSE TRUE

filter_same_color_collision(chess_piece, col) ==
  IF chess_piece # None THEN chess_piece.color # col ELSE TRUE

get_starting_row(color) ==
  IF color = "White" THEN WHITE_PAWN_ROW ELSE BLACK_PAWN_ROW

\* Returns [panicked, val]: val is the Option<Position>.
move_up(pos, distance, color, checks) ==
  LET r == IF color = "White"
           THEN UsizeAdd(get_row(pos), distance, checks)
           ELSE UsizeSub(get_row(pos), distance, checks)
  IN IF r.panicked THEN Panic
     ELSE Returned(try_new(r.val, get_column(pos)))

\* Option::filter(|x| self.get_piece(*x).is_none())
FilterEmpty(sq, opt) ==
  IF IsOk(opt) /\ get_piece(sq, Unwrap(opt)) = None THEN opt ELSE <<>>

\* The pawn's moves with the double step also asking for an empty square in between.
PawnMovesUnblocked(sq, pos, color, checks) ==
  LET one == move_up(pos, 1, color, checks)
  IN IF one.panicked THEN Panic
     ELSE IF get_starting_row(color) = get_row(pos) /\ FilterEmpty(sq, one.val) # <<>>
     THEN LET two == move_up(pos, 2, color, checks)
          IN IF two.panicked THEN Panic
             ELSE Returned(FilterEmpty(sq, one.val) \o FilterEmpty(sq, two.val))
     ELSE Returned(FilterEmpty(sq, one.val))

PawnMoves(sq, pos, color, checks) ==
  LET one == move_up(pos, 1, color, checks)
  IN IF one.panicked THEN Panic
     ELSE IF get_starting_row(color) = get_row(pos)
     THEN LET two == move_up(pos, 2, color, checks)
          IN IF two.panicked THEN Panic
             ELSE Returned(FilterEmpty(sq, one.val) \o FilterEmpty(sq, two.val))
     ELSE Returned(FilterEmpty(sq, one.val))

\* The ray loop without its break: it looks past an occupied square.
RECURSIVE WalkRayNoBreak(_, _, _, _)
WalkRayNoBreak(sq, ray, color, i) ==
  IF i > Len(ray) THEN <<>>
  ELSE (IF get_piece(sq, ray[i]) # None
        THEN (IF get_piece(sq, ray[i]).color # color THEN <<ray[i]>> ELSE <<>>)
        ELSE <<ray[i]>>)
       \o WalkRayNoBreak(sq, ray, color, i + 1)

\* One "for square in <ray> { match self.get_piece(square) ... break }" loop,
\* from index i of the ray on.
RECURSIVE WalkRay(_, _, _, _)
WalkRay(sq, ray, color, i) ==
  IF i > Len(ray) THEN <<>>
  ELSE IF get_piece(sq, ray[i]) # None
  THEN (IF get_piece(sq, ray[i]).color # color THEN <<ray[i]>> ELSE <<>>)
  ELSE <<ray[i]>> \o WalkRay(sq, ray, color, i + 1)

RookMoves(sq, pos, color) ==
  WalkRay(sq, get_up_squares(pos), color, 1)
    \o WalkRay(sq, get_down_squares(pos), color, 1)
    \o WalkRay(sq, get_left_squares(pos), color, 1)
    \o WalkRay(sq, get_right_squares(pos), color, 1)

BishopMoves(sq, pos, color) ==
  WalkRay(sq, get_principal_diagonal_up_squares(pos), color, 1)
    \o WalkRay(sq, get_principal_diagonal_down_squares(pos), color, 1)
    \o WalkRay(sq, get_secondary_diagonal_up_squares(pos), color, 1)
    \o WalkRay(sq, get_secondary_diagonal_down_squares(pos), color, 1)

QueenMoves(sq, pos, color) ==
  WalkRay(sq, get_up_squares(pos), color, 1)
    \o WalkRay(sq, get_down_squares(pos), color, 1)
    \o WalkRay(sq, get_left_squares(pos), color, 1)
    \o WalkRay(sq, get_right_squares(pos), color, 1)
    \o WalkRay(sq, get_principal_diagonal_up_squares(pos), color, 1)
    \o WalkRay(sq, get_principal_diagonal_down_squares(pos), color, 1)
    \o WalkRay(sq, get_secondary_diagonal_up_squares(pos), color, 1)
    \o WalkRay(sq, get_secondary_diagonal_down_squares(pos), color, 1)

\* The knight's offsets with one of them mistyped: (2, 2) for (2, 1).
KnightOffsetsMistyped ==
  << <<-2, -1>>, <<-2, 1>>, <<-1, -2>>, <<-1, 2>>,
     <<1, -2>>,  <<1, 2>>,  <<2, -1>>,  <<2, 2>> >>

KnightOffsets ==
  << <<-2, -1>>, <<-2, 1>>, <<-1, -2>>, <<-1, 2>>,
     <<1, -2>>,  <<1, 2>>,  <<2, -1>>,  <<2, 1>> >>

\* Keeps, in order, the squares of a list that filter_same_color_collision accepts.
RECURSIVE FilterCollision(_, _, _, _)
FilterCollision(sq, list, color, i) ==
  IF i > Len(list) THEN <<>>
  ELSE (IF filter_same_color_collision(get_piece(sq, list[i]), color)
        THEN <<list[i]>> ELSE <<>>)
       \o FilterCollision(sq, list, color, i + 1)

KnightMoves(sq, pos, color, checks) ==
  LET landing == FilterMapTryAdd(pos, KnightOffsets, 1, checks)
  IN IF landing.panicked THEN Panic
     ELSE Returned(FilterCollision(sq, landing.val, color, 1))

\* The King's loop with the break of the ray loops left in.
KingLoopBreaking(sq, list, color, i) == WalkRay(sq, list, color, i)

\* The King's loop: the match of the ray loops without the break.
RECURSIVE KingLoop(_, _, _, _)
KingLoop(sq, list, color, i) ==
  IF i > Len(list) THEN <<>>
  ELSE (IF get_piece(sq, list[i]) # None
        THEN (IF get_piece(sq, list[i]).color # color THEN <<list[i]>> ELSE <<>>)
        ELSE <<list[i]>>)
       \o KingLoop(sq, list, color, i + 1)

KingMoves(sq, pos, color, checks) ==
  LET around == get_surrounding_squares(pos, checks)
  IN IF around.panicked THEN Panic
     ELSE Returned(KingLoop(sq, around.val, color, 1))

\* Returns [panicked, val]: val is the Vec<Position>, in the order pushed.
get_available_moves(sq, pos, checks) ==
  LET piece == get_piece(sq, pos)
  IN IF piece = None THEN Returned(<<>>)
     ELSE CASE piece.kind = "Pawn" -> PawnMoves(sq, pos, piece.color, checks)
            [] piece.kind = "Rook" -> Returned(RookMoves(sq, pos, piece.color))
            [] piece.kind = "Knight" -> KnightMoves(sq, pos, piece.color, checks)
            [] piece.kind = "Bishop" -> Returned(BishopMoves(sq, pos, piece.color))
            [] piece.kind = "Queen" -> Returned(QueenMoves(sq, pos, piece.color))
            [] piece.kind = "King" -> KingMoves(sq, pos, piece.color, checks)
            [] OTHER -> Returned(<<>>)

\* ------------------------------------------- Color::switch, check detector
\* (called by main.rs; their definitions are not part of the sources at hand)
switch(color) == IF color = "White" THEN "Black" ELSE "White"

PawnAttackOffsets(color) ==
  IF color = "White" THEN << <<1, -1>>, <<1, 1>> >> ELSE << <<-1, -1>>, <<-1, 1>> >>

\* The squares the piece on pos attacks: the move list, except for a pawn,
\* whose in-range diagonal-forward squares are attacked whatever they hold.
attacking_squares_for(sq, pos) ==
  LET piece == get_piece(sq, pos)
  IN IF piece = None THEN {}
     ELSE IF piece.kind = "Pawn"
     THEN Range(FilterMapTryAdd(pos, PawnAttackOffsets(piece.color), 1, FALSE).val)
     ELSE Range(get_available_moves(sq, pos, FALSE).val)

KingSquares(sq, color) ==
  {p \in Positions : get_piece(sq, p) = NewPiece("King", color)}

\* The Option<Position> values the search for color's king may produce.
LocateKing(sq, color) ==
  IF KingSquares(sq, color) = {} THEN {<<>>}
  ELSE {<<k>> : k \in KingSquares(sq, color)}

AttackedBy(sq, color) ==
  UNION {attacking_squares_for(sq, p) :
           p \in {q \in Positions : get_piece(sq, q) # None
                                    /\ get_piece(sq, q).color = color}}

\* king is the located king square, as an Option<Position>.
is_king_in_check(sq, color, king) ==
  IF IsOk(king) /\ Unwrap(king) \in AttackedBy(sq, switch(color)) THEN king ELSE <<>>

\* ---------------------------------------------------------------- state
VARIABLES
  squares,              \* Board.squares
  prev_clicked_pos,     \* GuiBoard.prev_clicked_pos : Option<Position>
  available_positions,  \* GuiBoard.available_positions : Vec<Position>
  checked_king,         \* GuiBoard.checked_king : Option<Position>
  turn,                 \* GuiBoard.turn
  crashed,              \* the process has panicked
  moves_made,           \* move_piece calls made so far
  ret                   \* the last query made of the library and what it returned

vars == <<squares, prev_clicked_pos, available_positions, checked_king, turn,
          crashed, moves_made, ret>>

gui == <<prev_clicked_pos, available_positions, checked_king, turn, crashed>>

NoCall == [op |-> "none", args |-> <<>>, panicked |-> FALSE, val |-> <<>>]
Call(op, args, r) == [op |-> op, args |-> args, panicked |-> r.panicked, val |-> r.val]

Occupied(sq) == {p \in Positions : sq[p] # None}

\* GuiBoard::default() around a board; Color has no default in the sources
\* at hand, so either color may move first.
GuiDefault ==
  /\ prev_clicked_pos = <<>>
  /\ available_positions = <<>>
  /\ checked_king = <<>>
  /\ turn \in Colors
  /\ crashed = FALSE
  /\ moves_made = 0
  /\ ret = NoCall

\* A bare Board under test: the GUI fields play no part.
BoardOnly ==
  /\ prev_clicked_pos = <<>>
  /\ available_positions = <<>>
  /\ checked_king = <<>>
  /\ turn = "White"
  /\ crashed = FALSE
  /\ moves_made = 0
  /\ ret = NoCall

\* ------------------------------------------------------- library calls
\* A board is built piece by piece and then queried.  The queries are pure:
\* one is made of each board built (ret = NoCall), and ret keeps its arguments
\* and what it returned.
AddPieceFrom(pieces, places, max) ==
  /\ ret = NoCall
  /\ Cardinality(Occupied(squares)) < max
  /\ \E pos \in places \ Occupied(squares), piece \in pieces :
       /\ squares' = add_piece(squares, piece, pos)
       /\ ret' = NoCall
       /\ UNCHANGED <<gui, moves_made>>

AddPiece == AddPieceFrom(Pieces, Positions, MaxPieces)

GetAvailableMoves ==
  /\ ret = NoCall
  /\ \E pos \in Occupied(squares), checks \in BOOLEAN :
    /\ ret' = Call("get_available_moves", <<pos>>,
                   get_available_moves(squares, pos, checks))
    /\ UNCHANGED <<squares, gui, moves_made>>

\* The query made of an unoccupied square, on the boards that still take a piece.
GetAvailableMovesOfEmpty ==
  /\ ret = NoCall
  /\ Cardinality(Occupied(squares)) < MaxPieces
  /\ \E pos \in Positions \ Occupied(squares), checks \in BOOLEAN :
    /\ ret' = Call("get_available_moves", <<pos>>,
                   get_available_moves(squares, pos, checks))
    /\ UNCHANGED <<squares, gui, moves_made>>

MovePiece ==
  /\ moves_made < MaxMoveCalls
  /\ \E from \in Positions, to \in Positions :
    /\ squares' = move_piece(squares, from, to)
    /\ moves_made' = moves_made + 1
    /\ ret' = Call("move_piece", <<from, to>>, Returned(<<>>))
    /\ UNCHANGED gui

\* The squares of the sequences of move_piece calls: the pieces of both
\* colors on the a-file and two empty squares between them.
SeqSquares == {<<0, 0>>, <<1, 0>>, <<2, 0>>, <<5, 0>>, <<6, 0>>, <<7, 0>>}

MovePieceAmong ==
  /\ moves_made < MaxSeqCalls
  /\ \E from \in SeqSquares, to \in SeqSquares :
    /\ squares' = move_piece(squares, from, to)
    /\ moves_made' = moves_made + 1
    /\ ret' = Call("move_piece", <<from, to>>, Returned(<<>>))
    /\ UNCHANGED gui

RawCoords == 0 .. MaxCoord
Offsets == (-MaxOffset .. MaxOffset) \cup {IsizeMin, IsizeMax}

TryNew ==
  /\ ret = NoCall
  /\ \E row \in RawCoords, column \in RawCoords :
    /\ ret' = Call("try_new", <<row, column>>, Returned(try_new(row, column)))
    /\ UNCHANGED <<squares, gui, moves_made>>

TryAdd ==
  /\ ret = NoCall
  /\ \E pos \in Positions, d \in Offsets \X Offsets, checks \in BOOLEAN :
    /\ ret' = Call("try_add", <<pos, d>>, try_add(pos, d, checks))
    /\ UNCHANGED <<squares, gui, moves_made>>

GetSurroundingSquares ==
  /\ ret = NoCall
  /\ \E pos \in Positions, checks \in BOOLEAN :
    /\ ret' = Call("get_surrounding_squares", <<pos>>,
                   get_surrounding_squares(pos, checks))
    /\ UNCHANGED <<squares, gui, moves_made>>

\* The pieces and squares of the check-detection scenarios: file 4 and the
\* two squares from which a pawn attacks (0,4).
CheckPieces ==
  {NewPiece("King", "White"), NewPiece("Rook", "Black"),
   NewPiece("Pawn", "White"), NewPiece("Pawn", "Black")}
CheckSquares == {<<r, 4>> : r \in 0 .. BoardSize - 1} \cup {<<1, 3>>, <<1, 5>>}

AddCheckPiece == AddPieceFrom(CheckPieces, CheckSquares, MaxCheckPieces)

IsKingInCheck ==
  /\ ret = NoCall
  /\ \E color \in Colors :
    \E king \in LocateKing(squares, color) :
      /\ ret' = Call("is_king_in_check", <<color>>,
                     Returned(is_king_in_check(squares, color, king)))
      /\ UNCHANGED <<squares, gui, moves_made>>

\* ------------------------------------------------------- click handler
\* The click handler selecting a piece of either color.
HandleClickedAnyColor ==
  /\ ~crashed
  /\ moves_made < MaxMoves
  /\ \E pos \in Positions :
    /\ IF IsOk(prev_clicked_pos)
       THEN /\ IF pos \in Range(available_positions)
               THEN /\ squares' = move_piece(squares, Unwrap(prev_clicked_pos), pos)
                    /\ turn' = switch(turn)
                    /\ \E king \in LocateKing(squares', turn') :
                         checked_king' = is_king_in_check(squares', turn', king)
                    /\ moves_made' = moves_made + 1
               ELSE UNCHANGED <<squares, turn, checked_king, moves_made>>
            /\ prev_clicked_pos' = <<>>
            /\ available_positions' = <<>>
            /\ crashed' = FALSE
       ELSE IF get_piece(squares, pos) # None
       THEN \E checks \in BOOLEAN :
              LET r == get_available_moves(squares, pos, checks)
              IN /\ prev_clicked_pos' = <<pos>>
                 /\ crashed' = r.panicked
                 /\ available_positions' =
                      IF r.panicked THEN available_positions ELSE r.val
                 /\ UNCHANGED <<squares, turn, checked_king, moves_made>>
       ELSE UNCHANGED <<squares, gui, moves_made>>
    /\ ret' = NoCall

\* The click handler leaving available_positions as it is on the second click.
HandleClickedKeepingMoves ==
  /\ ~crashed
  /\ moves_made < MaxMoves
  /\ \E pos \in Positions :
    /\ IF IsOk(prev_clicked_pos)
       THEN /\ IF pos \in Range(available_positions)
               THEN /\ squares' = move_piece(squares, Unwrap(prev_clicked_pos), pos)
                    /\ turn' = switch(turn)
                    /\ \E king \in LocateKing(squares', turn') :
                         checked_king' = is_king_in_check(squares', turn', king)
                    /\ moves_made' = moves_made + 1
               ELSE UNCHANGED <<squares, turn, checked_king, moves_made>>
            /\ prev_clicked_pos' = <<>>
            /\ available_positions' = available_positions
            /\ crashed' = FALSE
       ELSE IF get_piece(squares, pos) # None /\ get_piece(squares, pos).color = turn
       THEN \E checks \in BOOLEAN :
              LET r == get_available_moves(squares, pos, checks)
              IN /\ prev_clicked_pos' = <<pos>>
                 /\ crashed' = r.panicked
                 /\ available_positions' =
                      IF r.panicked THEN available_positions ELSE r.val
                 /\ UNCHANGED <<squares, turn, checked_king, moves_made>>
       ELSE UNCHANGED <<squares, gui, moves_made>>
    /\ ret' = NoCall

HandleClicked ==
  /\ ~crashed
  /\ moves_made < MaxMoves
  /\ \E pos \in Positions :
    /\ IF IsOk(prev_clicked_pos)
       THEN /\ IF pos \in Range(available_positions)
               THEN /\ squares' = move_piece(squares, Unwrap(prev_clicked_pos), pos)
                    /\ turn' = switch(turn)
                    /\ \E king \in LocateKing(squares', turn') :
                         checked_king' = is_king_in_check(squares', turn', king)
                    /\ moves_made' = moves_made + 1
               ELSE UNCHANGED <<squares, turn, checked_king, moves_made>>
            /\ prev_clicked_pos' = <<>>
            /\ available_positions' = <<>>
            /\ crashed' = FALSE
       ELSE IF get_piece(squares, pos) # None /\ get_piece(squares, pos).color = turn
       THEN \E checks \in BOOLEAN :
              LET r == get_available_moves(squares, pos, checks)
              IN /\ prev_clicked_pos' = <<pos>>
                 /\ crashed' = r.panicked
                 /\ available_positions' =
                      IF r.panicked THEN available_positions ELSE r.val
                 /\ UNCHANGED <<squares, turn, checked_king, moves_made>>
       ELSE UNCHANGED <<squares, gui, moves_made>>
    /\ ret' = NoCall

\* ------------------------------------------------------ specifications
\* The GUI: GuiBoard::new_game, then clicks.
Init == squares = new_game /\ GuiDefault
Next == HandleClicked
Spec == Init /\ [][Next]_vars

\* Position's constructors and neighbourhood, on raw inputs.
InitGeom == squares = NewBoard /\ BoardOnly
NextGeom == TryNew \/ TryAdd \/ GetSurroundingSquares
SpecGeom == InitGeom /\ [][NextGeom]_vars

\* Board::new, then add_piece and get_available_moves.
InitBoard == squares = NewBoard /\ BoardOnly
NextBoard == AddPiece \/ GetAvailableMoves \/ GetAvailableMovesOfEmpty
SpecBoard == InitBoard /\ [][NextBoard]_vars

\* Board::new_game, then move_piece between any two squares.
InitMove == squares = new_game /\ BoardOnly
NextMove == MovePiece
SpecMove == InitMove /\ [][NextMove]_vars

\* Board::new_game, then sequences of move_piece calls.
InitMoveSeq == squares = new_game /\ BoardOnly
NextMoveSeq == MovePieceAmong
SpecMoveSeq == InitMoveSeq /\ [][NextMoveSeq]_vars

\* Board::new, then the check-detection scenarios.
InitCheck == squares = NewBoard /\ BoardOnly
NextCheck == AddCheckPiece \/ IsKingInCheck
SpecCheck == InitCheck /\ [][NextCheck]_vars

\* =============================================================== claims
Abs(x) == IF x < 0 THEN -x ELSE x
Chebyshev(p, q) ==
  IF Abs(p[1] - q[1]) > Abs(p[2] - q[2]) THEN Abs(p[1] - q[1]) ELSE Abs(p[2] - q[2])
InRange(x) == 0 <= x /\ x < 8

\* ------------------------------------------------------------------ C1
\* C1 (as stated): every move_piece(from, to), from = to included, leaves
\* the from square empty and the to square holding the piece that was on
\* from before the call.
C1_Original ==
  [][ret'.op = "move_piece" =>
       LET from == ret'.args[1]
           to == ret'.args[2]
       IN squares'[from] = None /\ squares'[to] = squares[from]]_vars

\* C1 (amended): every move_piece(from, to) leaves the to square holding the
\* piece (or the emptiness) that was on from before the call, whatever was on
\* to; the from square is left empty when from # to, and every other square
\* is as it was.  With from = to the square keeps its occupant.
C1_MovePieceRelocates ==
  [][ret'.op = "move_piece" =>
       LET from == ret'.args[1]
           to == ret'.args[2]
       IN /\ squares'[to] = squares[from]
          /\ from # to => squares'[from] = None
          /\ from = to => squares' = squares]_vars

\* A capture has happened: a piece of new_game stands on a square that held
\* an opponent piece, and its own square is empty.
C1_Witness ==
  /\ ret.op = "move_piece"
  /\ LET from == ret.args[1]
         to == ret.args[2]
     IN /\ from # to
        /\ new_game[from] # None /\ new_game[to] # None
        /\ new_game[from].color # new_game[to].color
        /\ squares[to] = new_game[from]
        /\ squares[from] = None

\* ------------------------------------------------------------------ C6
\* C6 (as stated): on the new_game board (1,1) is the White knight's square
\* and get_available_moves((1,1)) is exactly {(3,0), (3,2)}.
C6_Original ==
  (squares = new_game /\ prev_clicked_pos = << <<1, 1>> >>) =>
    /\ get_piece(squares, <<1, 1>>) = NewPiece("Knight", "White")
    /\ Range(available_positions) = {<<3, 0>>, <<3, 2>>}

\* C6 (amended): on the new_game board the White knight's starting square is
\* (0,1) and get_available_moves((0,1)) is exactly {(2,0), (2,2)}; (1,1)
\* holds a White pawn and get_available_moves((1,1)) is exactly {(2,1), (3,1)}.
C6_NewGameKnightMoves ==
  /\ (squares = new_game /\ prev_clicked_pos = << <<0, 1>> >>) =>
       /\ get_piece(squares, <<0, 1>>) = NewPiece("Knight", "White")
       /\ ~crashed
       /\ Len(available_positions) = 2
       /\ Range(available_positions) = {<<2, 0>>, <<2, 2>>}
  /\ (squares = new_game /\ prev_clicked_pos = << <<1, 1>> >>) =>
       /\ get_piece(squares, <<1, 1>>) = NewPiece("Pawn", "White")
       /\ ~crashed
       /\ Len(available_positions) = 2
       /\ Range(available_positions) = {<<2, 1>>, <<3, 1>>}

\* The White knight on (0,1) has been selected on the new_game board.
C6_Witness ==
  /\ squares = new_game
  /\ prev_clicked_pos = << <<0, 1>> >>
  /\ available_positions # <<>>

\* ------------------------------------------------------------------ C7
\* A rook on r attacks k: same rank or file, and nothing strictly between.
RookReaches(sq, r, k) ==
  /\ r # k
  /\ \/ /\ r[1] = k[1]
        /\ \A c \in 0 .. 7 :
             ((r[2] < c /\ c < k[2]) \/ (k[2] < c /\ c < r[2])) => sq[<<r[1], c>>] = None
     \/ /\ r[2] = k[2]
        /\ \A w \in 0 .. 7 :
             ((r[1] < w /\ w < k[1]) \/ (k[1] < w /\ w < r[1])) => sq[<<w, r[2]>>] = None

\* A Black pawn on p attacks k: one row below it, one column aside.
BlackPawnReaches(p, k) == k[1] = p[1] - 1 /\ Abs(k[2] - p[2]) = 1

\* The White king on k is attacked by a Black rook or a Black pawn (the Black
\* pieces of the scenarios).
WhiteKingAttacked(sq, k) ==
  \E p \in Positions :
    \/ sq[p] = NewPiece("Rook", "Black") /\ RookReaches(sq, p, k)
    \/ sq[p] = NewPiece("Pawn", "Black") /\ BlackPawnReaches(p, k)

RookCheckBoard ==
  [p \in Positions |->
     IF p = <<0, 4>> THEN NewPiece("King", "White")
     ELSE IF p = <<7, 4>> THEN NewPiece("Rook", "Black")
     ELSE None]
BlockedCheckBoard == [RookCheckBoard EXCEPT ![<<3, 4>>] = NewPiece("Pawn", "White")]

\* C7: is_king_in_check(color) returns the square of a king of that color
\* that an opponent piece attacks, and None when the king located is not
\* attacked (or there is none); with a White king on (0,4) and a Black rook
\* on (7,4) alone it returns Some((0,4)), and with a White pawn on (3,4)
\* added it returns None.
C7_KingInCheck ==
  ret.op = "is_king_in_check" =>
    /\ ~ret.panicked
    /\ ret.args[1] = "Black" => ret.val = <<>>
    /\ ret.args[1] = "White" =>
         /\ IsOk(ret.val) =>
              /\ Unwrap(ret.val) \in KingSquares(squares, "White")
              /\ WhiteKingAttacked(squares, Unwrap(ret.val))
         /\ ~IsOk(ret.val) =>
              \/ KingSquares(squares, "White") = {}
              \/ \E k \in KingSquares(squares, "White") : ~WhiteKingAttacked(squares, k)
         /\ squares = RookCheckBoard => ret.val = << <<0, 4>> >>
         /\ squares = BlockedCheckBoard => ret.val = <<>>

\* The blocked scenario has been queried.
C7_Witness ==
  /\ ret.op = "is_king_in_check"
  /\ ret.args[1] = "White"
  /\ squares = BlockedCheckBoard
  /\ ret.val = <<>>

\* ------------------------------------------------------------------ C8
\* C8: get_surrounding_squares(pos) returns exactly the on-board squares at
\* Chebyshev distance 1 from pos: at most 8, never pos itself, 3 for a corner
\* and 5 for another edge square.
C8_SurroundingIsRing ==
  ret.op = "get_surrounding_squares" =>
    LET pos == ret.args[1]
        onEdge == pos[1] \in {0, 7} \/ pos[2] \in {0, 7}
        inCorner == pos[1] \in {0, 7} /\ pos[2] \in {0, 7}
    IN /\ ~ret.panicked
       /\ Range(ret.val) = {q \in Positions : Chebyshev(pos, q) = 1}
       /\ pos \notin Range(ret.val)
       /\ Len(ret.val) <= 8
       /\ inCorner => Len(ret.val) = 3
       /\ (onEdge /\ ~inCorner) => Len(ret.val) = 5

\* ------------------------------------------------------------------ C9
\* C9: try_new(r, c) succeeds iff r and c are in [0,8); try_add(pos, d)
\* succeeds iff row + dRow and column + dCol are in [0,8), and returns that
\* coordinate; in every other case they return the error value.
C9_ConstructorsBoundsChecked ==
  /\ ret.op = "try_new" =>
       LET r == ret.args[1]
           c == ret.args[2]
       IN /\ ~ret.panicked
          /\ (InRange(r) /\ InRange(c)) => ret.val = Ok(<<r, c>>)
          /\ ~(InRange(r) /\ InRange(c)) => ret.val = Err
  /\ ret.op = "try_add" =>
       LET r == ret.args[1][1] + ret.args[2][1]
           c == ret.args[1][2] + ret.args[2][2]
       IN /\ ~ret.panicked
          /\ (InRange(r) /\ InRange(c)) => ret.val = Ok(<<r, c>>)
          /\ ~(InRange(r) /\ InRange(c)) => ret.val = Err

\* ------------------------------------------- get_available_moves claims
IsMovesCall == ret.op = "get_available_moves"
Subject == get_piece(squares, ret.args[1])
Moves == Range(ret.val)
OnBoard(p) == InRange(p[1]) /\ InRange(p[2])
Step(pos, d, i) == <<pos[1] + i * d[1], pos[2] + i * d[2]>>
Forward(color) == IF color = "White" THEN 1 ELSE -1
Opponent(sq, p, color) == sq[p] # None /\ sq[p].color # color

Orthogonal == {<<1, 0>>, <<-1, 0>>, <<0, 1>>, <<0, -1>>}
Diagonal == {<<1, 1>>, <<-1, -1>>, <<-1, 1>>, <<1, -1>>}
RayDirections(kind) ==
  CASE kind = "Rook" -> Orthogonal
    [] kind = "Bishop" -> Diagonal
    [] kind = "Queen" -> Orthogonal \cup Diagonal
    [] OTHER -> {}

\* ------------------------------------------------------------------ C2
\* C2: for a Rook, Bishop or Queen and each of its rays, a square of the ray
\* is in get_available_moves iff every square before it on the ray is empty
\* and it is itself empty or opponent-occupied: the empty squares before the
\* first occupied one are in, the first occupied one is in iff it holds an
\* opponent piece, and nothing beyond it is in.
C2_SlidingRays ==
  (IsMovesCall /\ Subject.kind \in {"Rook", "Bishop", "Queen"}) =>
    LET pos == ret.args[1]
    IN /\ ~ret.panicked
       /\ \A d \in RayDirections(Subject.kind) :
            \A i \in 1 .. 7 :
              OnBoard(Step(pos, d, i)) =>
                (Step(pos, d, i) \in Moves
                   <=> /\ \A j \in 1 .. i - 1 : squares[Step(pos, d, j)] = None
                       /\ \/ squares[Step(pos, d, i)] = None
                          \/ Opponent(squares, Step(pos, d, i), Subject.color))

\* A slider's ray ends on an opponent piece reached over an empty square:
\* the piece's square is in the result and the next square of the ray is not.
C2_Witness ==
  /\ IsMovesCall
  /\ Subject.kind \in {"Rook", "Bishop", "Queen"}
  /\ \E d \in RayDirections(Subject.kind), i \in 2 .. 6 :
       /\ OnBoard(Step(ret.args[1], d, i + 1))
       /\ Opponent(squares, Step(ret.args[1], d, i), Subject.color)
       /\ Step(ret.args[1], d, i) \in Moves
       /\ Step(ret.args[1], d, i - 1) \in Moves
       /\ Step(ret.args[1], d, i + 1) \notin Moves

\* ------------------------------------------------------------------ C3
\* C3: each on-board diagonal-forward square of a pawn is in
\* get_available_moves iff an opponent piece stands on it.
C3_PawnDiagonalCaptures ==
  (IsMovesCall /\ Subject.kind = "Pawn") =>
    \A dc \in {-1, 1} :
      LET diag == <<ret.args[1][1] + Forward(Subject.color), ret.args[1][2] + dc>>
      IN OnBoard(diag) =>
           (diag \in Moves <=> Opponent(squares, diag, Subject.color))

\* ------------------------------------------------------------------ C4
\* C4: the square one row ahead of a pawn is in get_available_moves iff it is
\* on the board and empty, and the query returns normally also for a White
\* pawn on row 7 and a Black pawn on row 0.
C4_PawnSingleStep ==
  (IsMovesCall /\ Subject.kind = "Pawn") =>
    LET ahead == <<ret.args[1][1] + Forward(Subject.color), ret.args[1][2]>>
    IN /\ ~ret.panicked
       /\ OnBoard(ahead) => (ahead \in Moves <=> squares[ahead] = None)
       /\ ~OnBoard(ahead) => \A m \in Moves : m[2] # ret.args[1][2]

\* ------------------------------------------------------------------ C5
\* C5: the square two rows ahead of a pawn is in get_available_moves iff the
\* pawn stands on its starting row (1 for White, 6 for Black) and that square
\* is empty, whatever stands on the square in between.
C5_PawnDoubleStep ==
  (IsMovesCall /\ Subject.kind = "Pawn") =>
    LET pos == ret.args[1]
        two == <<pos[1] + 2 * Forward(Subject.color), pos[2]>>
        startRow == IF Subject.color = "White" THEN 1 ELSE 6
    IN /\ OnBoard(two) =>
            (two \in Moves <=> (pos[1] = startRow /\ squares[two] = None))
       /\ pos[1] = startRow => OnBoard(two) /\ ~ret.panicked

\* A pawn on its starting row jumps over an occupied square.
C5_Witness ==
  /\ IsMovesCall
  /\ Subject.kind = "Pawn"
  /\ LET pos == ret.args[1]
         one == <<pos[1] + Forward(Subject.color), pos[2]>>
         two == <<pos[1] + 2 * Forward(Subject.color), pos[2]>>
     IN /\ OnBoard(two)
        /\ squares[one] # None
        /\ two \in Moves

\* ----------------------------------------------------------------- C10
\* C10: for a king, get_available_moves is exactly the on-board squares at
\* Chebyshev distance 1 that are empty or opponent-occupied; alone on the
\* board a king on (3,3) has 8 destinations and a king on (0,0) has 3.
C10_KingMoves ==
  (IsMovesCall /\ Subject.kind = "King") =>
    LET pos == ret.args[1]
    IN /\ ~ret.panicked
       /\ Moves = {q \in Positions :
                     /\ Chebyshev(pos, q) = 1
                     /\ squares[q] = None \/ Opponent(squares, q, Subject.color)}
       /\ Len(ret.val) = Cardinality(Moves)
       /\ (Occupied(squares) = {pos} /\ pos = <<3, 3>>) => Len(ret.val) = 8
       /\ (Occupied(squares) = {pos} /\ pos = <<0, 0>>) => Len(ret.val) = 3

\* A king next to one of its own pieces: that square is left out, the others
\* around it are in.
C10_Witness ==
  /\ IsMovesCall
  /\ Subject.kind = "King"
  /\ ret.args[1] = <<3, 3>>
  /\ squares[<<4, 4>>] # None /\ squares[<<4, 4>>].color = Subject.color
  /\ Len(ret.val) = 7

\* ----------------------------------------------------------------- C11
KnightJumps ==
  {<<1, 2>>, <<1, -2>>, <<-1, 2>>, <<-1, -2>>, <<2, 1>>, <<2, -1>>, <<-2, 1>>, <<-2, -1>>}

\* C11: for a knight, get_available_moves is exactly the squares reached by
\* the eight (+-1,+-2)/(+-2,+-1) offsets that are on the board and not held
\* by a piece of the knight's color, whatever stands in between; alone on the
\* board a knight on (3,3) has 8 destinations and a knight on (0,0) has 2.
C11_KnightMoves ==
  (IsMovesCall /\ Subject.kind = "Knight") =>
    LET pos == ret.args[1]
    IN /\ ~ret.panicked
       /\ Moves = {q \in Positions :
                     /\ <<q[1] - pos[1], q[2] - pos[2]>> \in KnightJumps
                     /\ squares[q] = None \/ Opponent(squares, q, Subject.color)}
       /\ Len(ret.val) = Cardinality(Moves)
       /\ (Occupied(squares) = {pos} /\ pos = <<3, 3>>) => Len(ret.val) = 8
       /\ (Occupied(squares) = {pos} /\ pos = <<0, 0>>) => Len(ret.val) = 2

\* A knight whose landing square (5,4) holds an opponent piece: it has all 8
\* destinations, that square among them.
C11_Witness ==
  /\ IsMovesCall
  /\ Subject.kind = "Knight"
  /\ ret.args[1] = <<3, 3>>
  /\ Opponent(squares, <<5, 4>>, Subject.color)
  /\ <<5, 4>> \in Moves
  /\ Len(ret.val) = 8

\* ----------------------------------------------------------------- C13
\* C13: no coordinate returned by get_available_moves(pos) is pos itself or a
\* square held by a piece of the color of the piece on pos; every one is an
\* on-board square that is empty or opponent-held; an unoccupied pos yields
\* the empty result.
C13_NoSelfNoOwnPiece ==
  IsMovesCall =>
    LET pos == ret.args[1]
    IN /\ Subject = None => (~ret.panicked /\ ret.val = <<>>)
       /\ Subject # None =>
            \A q \in Moves :
              /\ q # pos
              /\ q \in Positions
              /\ squares[q] = None \/ Opponent(squares, q, Subject.color)

\* A piece with moves stands next to a piece of its own color, which is not
\* among them.
C13_Witness ==
  /\ IsMovesCall
  /\ Subject # None
  /\ Moves # {}
  /\ \E q \in Positions :
       /\ Chebyshev(ret.args[1], q) = 1
       /\ squares[q] # None /\ squares[q].color = Subject.color
       /\ q \notin Moves

\* ----------------------------------------------------------------- C14
PieceCount(sq) == Cardinality(Occupied(sq))
CountOf(sq, piece) == Cardinality({p \in Positions : sq[p] = piece})

\* C14: move_piece(from, to) leaves every square other than from and to as it
\* was; so after any sequence of calls from new_game the number of pieces
\* never grows and drops by at most one per call, and no (kind, color) has
\* more pieces than before.
C14_MovePieceFrame ==
  /\ [](/\ PieceCount(squares) <= PieceCount(new_game)
        /\ PieceCount(squares) >= PieceCount(new_game) - moves_made
        /\ \A piece \in Pieces : CountOf(squares, piece) <= CountOf(new_game, piece))
  /\ [][ret'.op = "move_piece" =>
          LET from == ret'.args[1]
              to == ret'.args[2]
          IN /\ \A p \in Positions \ {from, to} : squares'[p] = squares[p]
             /\ PieceCount(squares') <= PieceCount(squares)
             /\ PieceCount(squares') >= PieceCount(squares) - 1
             /\ \A piece \in Pieces :
                  CountOf(squares', piece) <= CountOf(squares, piece)]_vars

\* Two captures have been made in a sequence of calls.
C14_Witness ==
  /\ ret.op = "move_piece"
  /\ moves_made >= 2
  /\ PieceCount(squares) = PieceCount(new_game) - 2

\* ----------------------------------------------------------------- C12
\* C12: a click changes the board only by move_piece(from, to) where from is
\* the selected square, holding a piece of the side to move, and to is among
\* get_available_moves(from), the moves computed at the selection; the turn
\* flips on exactly the clicks that execute such a move.
C12_MovesOnlyFromSelection ==
  [][/\ squares' # squares =>
          /\ IsOk(prev_clicked_pos)
          /\ LET from == Unwrap(prev_clicked_pos)
             IN /\ get_piece(squares, from) # None
                /\ get_piece(squares, from).color = turn
                /\ \E checks \in BOOLEAN :
                     LET r == get_available_moves(squares, from, checks)
                     IN /\ ~r.panicked
                        /\ available_positions = r.val
                        /\ \E to \in Range(r.val) :
                             squares' = move_piece(squares, from, to)
     /\ turn' # turn <=> squares' # squares
     /\ turn' # turn <=> moves_made' = moves_made + 1
     /\ turn' # turn => turn' = switch(turn)]_vars

\* Two moves have been executed, one by each side.
C12_Witness ==
  /\ moves_made = 2
  /\ \E p \in Positions :
       new_game[p] # None /\ new_game[p].color = "White" /\ squares[p] = None
  /\ \E p \in Positions :
       new_game[p] # None /\ new_game[p].color = "Black" /\ squares[p] = None

\* ----------------------------------------------------------------- C15
\* C15: after every click handled, no selection means no available
\* positions, and a selected square holds a piece of the side to move with
\* available_positions equal to get_available_moves of that square on the
\* current board; a click made while a square is selected clears the
\* selection, move or no move.  (A click that panics ends the process.)
C15_SelectionConsistent ==
  /\ [](/\ prev_clicked_pos = <<>> => available_positions = <<>>
        /\ (IsOk(prev_clicked_pos) /\ ~crashed) =>
             LET sel == Unwrap(prev_clicked_pos)
             IN /\ get_piece(squares, sel) # None
                /\ get_piece(squares, sel).color = turn
                /\ \E checks \in BOOLEAN :
                     LET r == get_available_moves(squares, sel, checks)
                     IN ~r.panicked /\ available_positions = r.val)
  /\ [][IsOk(prev_clicked_pos) =>
          (prev_clicked_pos' = <<>> /\ available_positions' = <<>>)]_vars

\* After a first move, the other side has selected a piece that has moves.
C15_Witness ==
  /\ moves_made = 1
  /\ IsOk(prev_clicked_pos)
  /\ available_positions # <<>>

====
